---- MODULE Spec2Model ----
(***************************************************************************)
(* Model of src/app.py: the handler get_user_weaknesses of                 *)
(* GET /api/user/{user_id}/weaknesses.  It fetches the user's test rows,   *)
(* groups the question attempts of every row by "subtopic | section",      *)
(* counts correct / incorrect answers, computes an error rate per group    *)
(* and answers with the groups sorted by error rate, highest first.        *)
(*                                                                         *)
(* Python values are modelled as follows.                                  *)
(*   str    a sequence of one-character strings                            *)
(*   float  an IEEE-754 binary64 value [m, e] standing for m * 2^e, with   *)
(*          m = 0 or 2^52 <= m < 2^53; m is an unbounded natural written   *)
(*          as a little-endian sequence of base-2^15 digits                *)
(*   dict   a function on the keys it holds (rows, question attempts), or  *)
(*          a sequence of [key, value] items in insertion order (the       *)
(*          defaultdict the handler accumulates into and iterates)         *)
(*   JSON   a value tagged with its type: [type |-> "list", items |-> _],  *)
(*          [type |-> "dict", fields |-> _], [type |-> "int"],             *)
(*          [type |-> "null"], [type |-> "str", text |-> _]                *)
(***************************************************************************)
EXTENDS Integers, Sequences, FiniteSets, TLC

(***************************************************************************)
(* Bounds of the model.                                                    *)
(***************************************************************************)
\* rows returned by the fetch
MaxRecs == 2
\* entries in one row's question_details
MaxQ == 2
\* entries over all rows of one fetch
MaxEntries == 3

(***************************************************************************)
(* Strings.                                                                *)
(***************************************************************************)
\* the literal " | " of the f-string and of split
Delim == <<" ", "|", " ">>
\* the default 'Unknown' of question.get
Unknown == <<"U", "n", "k", "n", "o", "w", "n">>

\* f"{subtopic} | {section}"
FormatKey(subtopic, section) == subtopic \o Delim \o section

\* s.startswith(sep, i): sep occurs in s at position i
OccursAt(s, sep, i) ==
  /\ i + Len(sep) - 1 <= Len(s)
  /\ \A j \in 1..Len(sep) : s[i + j - 1] = sep[j]

\* s.find(sep): the leftmost position of sep in s, 0 when there is none
Find(s, sep) ==
  LET hits == {i \in 1..Len(s) : OccursAt(s, sep, i)}
  IN IF hits = {} THEN 0 ELSE CHOOSE i \in hits : \A j \in hits : i <= j

\* s.split(sep): the pieces between the successive leftmost occurrences
RECURSIVE Split(_, _)
Split(s, sep) ==
  LET i == Find(s, sep)
  IN IF i = 0 THEN <<s>>
     ELSE <<SubSeq(s, 1, i - 1)>> \o Split(SubSeq(s, i + Len(sep), Len(s)), sep)

(***************************************************************************)
(* Naturals of any size, for the 53-bit significands of floats.            *)
(***************************************************************************)
RECURSIVE Pow2(_)
Pow2(n) == IF n = 0 THEN 1 ELSE 2 * Pow2(n - 1)

\* a digit holds DigitBits bits
DigitBits == 15
Base == Pow2(DigitBits)

\* drop the leading (most significant) zero digits
RECURSIVE BNorm(_)
BNorm(a) ==
  IF a = <<>> THEN <<>>
  ELSE IF a[Len(a)] = 0 THEN BNorm(SubSeq(a, 1, Len(a) - 1)) ELSE a

RECURSIVE BFromInt(_)
BFromInt(n) == IF n = 0 THEN <<>> ELSE <<n % Base>> \o BFromInt(n \div Base)

\* a * k + carry, for 0 <= k < Base
RECURSIVE BMulAdd(_, _, _)
BMulAdd(a, k, carry) ==
  IF a = <<>> THEN BFromInt(carry)
  ELSE LET v == a[1] * k + carry
       IN <<v % Base>> \o BMulAdd(Tail(a), k, v \div Base)

BMulSmall(a, k) == BNorm(BMulAdd(a, k, 0))

BAddSmall(a, k) == BNorm(BMulAdd(a, 1, k))

\* the quotient and remainder of a by k, for 0 < k < Base; most significant
\* digit first, as in long division
RECURSIVE BDivRem(_, _, _)
BDivRem(a, k, rem) ==
  IF a = <<>> THEN [q |-> <<>>, r |-> rem]
  ELSE LET cur  == rem * Base + a[Len(a)]
           rest == BDivRem(SubSeq(a, 1, Len(a) - 1), k, cur % k)
       IN [q |-> rest.q \o <<cur \div k>>, r |-> rest.r]

BDivSmall(a, k) ==
  LET d == BDivRem(a, k, 0) IN [q |-> BNorm(d.q), r |-> d.r]

\* a * 2^n
BShl(a, n) ==
  IF a = <<>> THEN <<>>
  ELSE BMulSmall([i \in 1..(n \div DigitBits) |-> 0] \o a, Pow2(n % DigitBits))

\* -1, 0, 1 as a < b, a = b, a > b (both without leading zeros)
RECURSIVE BCmpFrom(_, _, _)
BCmpFrom(a, b, i) ==
  IF i = 0 THEN 0
  ELSE IF a[i] < b[i] THEN -1
  ELSE IF a[i] > b[i] THEN 1
  ELSE BCmpFrom(a, b, i - 1)

BCmp(a, b) ==
  IF Len(a) < Len(b) THEN -1
  ELSE IF Len(a) > Len(b) THEN 1
  ELSE BCmpFrom(a, b, Len(a))

\* a - b, for a >= b
RECURSIVE BSubFrom(_, _, _)
BSubFrom(a, b, borrow) ==
  IF a = <<>> THEN <<>>
  ELSE LET bd == IF b = <<>> THEN 0 ELSE b[1]
           v  == a[1] - bd - borrow
       IN <<IF v < 0 THEN v + Base ELSE v>>
            \o BSubFrom(Tail(a), IF b = <<>> THEN <<>> ELSE Tail(b),
                        IF v < 0 THEN 1 ELSE 0)

BSub(a, b) == BNorm(BSubFrom(a, b, 0))

\* |a - b|
BDist(a, b) == IF BCmp(a, b) >= 0 THEN BSub(a, b) ELSE BSub(b, a)

BIsOdd(a) == a # <<>> /\ a[1] % 2 = 1

(***************************************************************************)
(* Floats: IEEE-754 binary64, round to nearest, ties to even.              *)
(***************************************************************************)
\* bits of a binary64 significand
MantissaBits == 53

FloatZero == [m |-> <<>>, e |-> 0]

\* 2^53 and 2^52: one past the largest significand, and the smallest one
SignificandEnd == BShl(<<1>>, MantissaBits)
SignificandMin == BShl(<<1>>, MantissaBits - 1)

\* the float nearest to q * 2^e + (a fraction of 2^e), where q has exactly
\* MantissaBits bits, half tells whether the fraction is >= 1/2 and sticky
\* whether it is neither 0 nor 1/2
RoundNearestEven(q, e, half, sticky) ==
  LET up == half /\ (sticky \/ BIsOdd(q))
      m  == IF up THEN BAddSmall(q, 1) ELSE q
  IN IF m = SignificandEnd
     THEN [m |-> SignificandMin, e |-> e + 1]
     ELSE [m |-> m, e |-> e]

\* the least k >= 0 with n * 2^k >= d, for 0 < n
RECURSIVE ShiftToReach(_, _)
ShiftToReach(n, d) == IF n >= d THEN 0 ELSE 1 + ShiftToReach(2 * n, d)

\* i / t of two ints, 0 <= i <= t, 0 < t < Base: Python's true division,
\* correctly rounded
FloatDiv(i, t) ==
  IF i = 0 THEN FloatZero
  ELSE LET k == ShiftToReach(i, t)
           \* i * 2^k / t lies in [1, 2): the quotient below has one bit
           \* more than a significand
           d == BDivSmall(BShl(BFromInt(i), k + MantissaBits), t)
           h == BDivSmall(d.q, 2)
       IN RoundNearestEven(h.q, 1 - k - MantissaBits, h.r = 1, d.r # 0)

\* the number of bits of n > 0
RECURSIVE BitsOf(_)
BitsOf(n) == IF n = 0 THEN 0 ELSE 1 + BitsOf(n \div 2)

\* the number of bits of a > 0
BitLength(a) == DigitBits * (Len(a) - 1) + BitsOf(a[Len(a)])

\* f * n for an int 0 < n < Base that a float holds exactly
FloatMulInt(f, n) ==
  IF f.m = <<>> THEN FloatZero
  ELSE LET p == BMulSmall(f.m, n)
           d == BitLength(p) - MantissaBits
       IN IF d = 0 THEN [m |-> p, e |-> f.e]
          ELSE LET hi == BDivSmall(p, Pow2(d))
                   h  == Pow2(d - 1)
               IN RoundNearestEven(hi.q, f.e + d, hi.r >= h, hi.r # 0 /\ hi.r # h)

\* -1, 0, 1 as f < g, f = g, f > g, for floats >= 0
FloatCmp(f, g) ==
  IF f.m = <<>> THEN (IF g.m = <<>> THEN 0 ELSE -1)
  ELSE IF g.m = <<>> THEN 1
  ELSE IF f.e < g.e THEN -1
  ELSE IF f.e > g.e THEN 1
  ELSE BCmp(f.m, g.m)

(***************************************************************************)
(* Exceptions: the classes the handler can meet and their base classes.    *)
(***************************************************************************)
ExcBase ==
  [ HTTPException   |-> "Exception",
    APIError        |-> "Exception",
    JSONDecodeError |-> "ValueError",
    ValueError      |-> "Exception",
    TypeError       |-> "Exception",
    AttributeError  |-> "Exception",
    KeyError        |-> "LookupError",
    LookupError     |-> "Exception",
    Exception       |-> "BaseException" ]

\* isinstance(an instance of class cls, class base)
RECURSIVE IsInstance(_, _)
IsInstance(cls, base) ==
  \/ cls = base
  \/ cls \in DOMAIN ExcBase /\ IsInstance(ExcBase[cls], base)

\* the decode error is not caught where it is raised
CaughtByDecodeExcept_Uncaught(cls) == FALSE

\* except json.JSONDecodeError
CaughtByDecodeExcept(cls) == IsInstance(cls, "JSONDecodeError")

\* except (TypeError, KeyError)
CaughtByRecordExcept(cls) == IsInstance(cls, "TypeError") \/ IsInstance(cls, "KeyError")

\* except Exception
CaughtByHandlerExcept(cls) == IsInstance(cls, "Exception")

\* the response FastAPI sends for an HTTPException that leaves the handler
ErrorResponse(status_code) ==
  [status |-> status_code, weaknesses |-> <<>>, total_areas_analyzed |-> 0]

\* what leaves the handler when cls, carrying status_code if it is an
\* HTTPException, is raised inside its try block: the except clause turns
\* every Exception into HTTPException(status_code=500)
RaisedInTry(cls, status_code) ==
  IF CaughtByHandlerExcept(cls) THEN ErrorResponse(500)
  ELSE ErrorResponse(status_code)

(***************************************************************************)
(* The fetched rows.                                                       *)
(***************************************************************************)
JsonNull == [type |-> "null"]
JsonInt == [type |-> "int"]
JsonList(items) == [type |-> "list", items |-> items]
JsonDict(fields) == [type |-> "dict", fields |-> fields]
\* a str that is the serialization of value
JsonText(value) == [type |-> "str", text |-> [valid |-> TRUE, value |-> value]]
\* a str that is no JSON document
GarbageText == [type |-> "str", text |-> [valid |-> FALSE]]

Str_a == <<"a">>
Str_b == <<"b">>
Str_a_bar == <<"a", " ", "|">>
Str_bar_b == <<"|", " ", "b">>

\* the question attempts rows are made of
Attempts ==
  { JsonDict([subtopic |-> Str_a_bar, section |-> Str_b]),
    JsonDict([subtopic |-> Str_a, section |-> Str_bar_b, isCorrect |-> FALSE]),
    JsonDict([subtopic |-> Str_a_bar, section |-> Str_bar_b, isCorrect |-> TRUE]),
    JsonDict([isCorrect |-> FALSE]),
    JsonDict([isCorrect |-> TRUE]) }

\* what a question_details collection may hold
Entries == Attempts \cup {JsonInt}

\* the values of question_details holding exactly k entries
DetailsWith(k) ==
  {JsonList(l) : l \in [1..k -> Entries]}
    \cup (IF k = 0 THEN {JsonNull, GarbageText} ELSE {})
    \cup (IF k = 1 THEN {JsonText(JsonList(<<a>>)) : a \in Attempts} ELSE {})

\* the rows holding exactly k entries
RowsWith(k) ==
  {[test_type |-> "GMAT Onboarding Test", question_details |-> d] : d \in DetailsWith(k)}
    \cup (IF k = 0 THEN {[test_type |-> "GRE Onboarding Test"]} ELSE {})

Min(a, b) == IF a <= b THEN a ELSE b

\* the rows holding at most budget entries, for every budget
RowsWithin ==
  [budget \in 0..MaxEntries |-> UNION {RowsWith(k) : k \in 0..Min(MaxQ, budget)}]

\* the number of entries a row holds
EntriesIn(test) ==
  IF "question_details" \notin DOMAIN test THEN 0
  ELSE LET d == test.question_details
       IN IF d.type = "list" THEN Len(d.items)
          ELSE IF d.type = "str" /\ d.text.valid THEN Len(d.text.value.items)
          ELSE 0

RECURSIVE EntriesInAll(_)
EntriesInAll(rows) ==
  IF rows = <<>> THEN 0 ELSE EntriesIn(Head(rows)) + EntriesInAll(Tail(rows))

(***************************************************************************)
(* The steps of get_user_weaknesses.                                       *)
(***************************************************************************)
\* json.loads(s)
JsonLoads(s) ==
  IF s.text.valid THEN [exc |-> "None", value |-> s.text.value]
  ELSE [exc |-> "JSONDecodeError"]

\* what "for question in v" iterates over, for the values a fetch holds:
\* a list gives its items, None and an int are not iterable
Iterate(v) ==
  IF v.type = "list" THEN [exc |-> "None", items |-> v.items]
  ELSE [exc |-> "TypeError"]

\* lines 90-99: the collection a row's questions are read from
LoadQuestions(test) ==
  IF "question_details" \notin DOMAIN test THEN [exc |-> "KeyError"]
  ELSE LET questions == test.question_details
       IN IF questions.type = "str"
          THEN LET loaded == JsonLoads(questions)
               IN IF loaded.exc # "None" THEN loaded ELSE Iterate(loaded.value)
          ELSE Iterate(questions)

\* d.get(key, default)
Get(d, key, default) == IF key \in DOMAIN d THEN d[key] ELSE default

\* defaultdict(lambda: {'correct': 0, 'incorrect': 0, 'total': 0})
DefaultStats == [correct |-> 0, incorrect |-> 0, total |-> 0]

KeysOf(stats) == {stats[i].key : i \in 1..Len(stats)}

IndexOf(stats, key) == CHOOSE i \in 1..Len(stats) : stats[i].key = key

\* stats[key] of a defaultdict: a missing key is inserted with the default
Touch(stats, key) ==
  IF key \in KeysOf(stats) THEN stats
  ELSE Append(stats, [key |-> key, value |-> DefaultStats])

\* stats[key][field] += 1
Increment(stats, key, field) ==
  LET s == Touch(stats, key)
      i == IndexOf(s, key)
  IN [s EXCEPT ![i].value[field] = @ + 1]

\* total is left as it was
UpdateCounts_NoTotal(stats, key, is_correct) ==
  Increment(stats, key, IF is_correct THEN "correct" ELSE "incorrect")

\* lines 111-116
UpdateCounts(stats, key, is_correct) ==
  Increment(Increment(stats, key, IF is_correct THEN "correct" ELSE "incorrect"),
            key, "total")

\* lines 101-116: one pass of the loop over a row's questions
ProcessQuestion(stats, question) ==
  IF question.type # "dict" THEN [exc |-> "AttributeError"]
  ELSE LET subtopic == Get(question.fields, "subtopic", Unknown)
           section == Get(question.fields, "section", Unknown)
           comprehensive_key == FormatKey(subtopic, section)
           is_correct == Get(question.fields, "isCorrect", FALSE)
       IN [exc |-> "None", stats |-> UpdateCounts(stats, comprehensive_key, is_correct)]

\* the rate of the correct answers
ErrorRate_OfCorrect(value) ==
  IF value.total > 0
  THEN FloatMulInt(FloatDiv(value.correct, value.total), 100)
  ELSE FloatZero

\* line 124 and line 126
ErrorRate(value) ==
  IF value.total > 0
  THEN FloatMulInt(FloatDiv(value.incorrect, value.total), 100)
  ELSE FloatZero

\* lines 122-126
CalculateErrorRates(stats) ==
  [i \in 1..Len(stats) |->
     [key |-> stats[i].key,
      value |-> [correct |-> stats[i].value.correct,
                 incorrect |-> stats[i].value.incorrect,
                 total |-> stats[i].value.total,
                 error_rate |-> ErrorRate(stats[i].value)]]]

\* line 131
Included(value) == value.total >= 1

\* lines 129-141: the list of weaknesses, or the ValueError of unpacking a
\* split that has not two pieces
RECURSIVE BuildWeaknesses(_)
BuildWeaknesses(stats) ==
  IF stats = <<>> THEN [exc |-> "None", weaknesses |-> <<>>]
  ELSE LET item == Head(stats)
           parts == Split(item.key, Delim)
           rest == BuildWeaknesses(Tail(stats))
       IN IF ~Included(item.value) THEN rest
          ELSE IF Len(parts) # 2 THEN [exc |-> "ValueError"]
          ELSE IF rest.exc # "None" THEN rest
          ELSE [exc |-> "None",
                weaknesses |->
                  <<[subtopic |-> parts[1],
                     section |-> parts[2],
                     error_rate |-> item.value.error_rate,
                     total_questions |-> item.value.total,
                     correct_answers |-> item.value.correct,
                     incorrect_answers |-> item.value.incorrect]>> \o rest.weaknesses]

\* lowest rate first
GoesBefore_Ascending(w, v) == FloatCmp(w.error_rate, v.error_rate) <= 0

\* whether w goes before v in the sorted list when w came before v
GoesBefore(w, v) == FloatCmp(w.error_rate, v.error_rate) >= 0

\* w put into the sorted list ws, behind the entries that go before it
RECURSIVE InsertSorted(_, _)
InsertSorted(ws, w) ==
  IF ws = <<>> THEN <<w>>
  ELSE IF GoesBefore(Head(ws), w) THEN <<Head(ws)>> \o InsertSorted(Tail(ws), w)
  ELSE <<w>> \o ws

\* line 144: weaknesses.sort(key=lambda x: x.error_rate, reverse=True),
\* a stable sort
RECURSIVE SortByErrorRate(_)
SortByErrorRate(ws) ==
  IF ws = <<>> THEN <<>>
  ELSE InsertSorted(SortByErrorRate(SubSeq(ws, 1, Len(ws) - 1)), ws[Len(ws)])

\* lines 146-150
OkResponse(ws) ==
  [status |-> 200, weaknesses |-> ws, total_areas_analyzed |-> Len(ws)]

(***************************************************************************)
(* The handler as a state machine.  The rows of response.data are drawn    *)
(* when the loop reaches them: test_results holds the rows reached so far  *)
(* and n_results the number of rows the fetch returned.                    *)
(***************************************************************************)
VARIABLES
  pc,                        \* where the handler is
  n_results,                 \* len(response.data), -1 while there is none
  test_results,              \* response.data, up to the row the loop is at
  questions,                 \* the collection the inner loop goes over
  qi,                        \* the entry the inner loop is at
  user_comprehensive_stats,  \* the accumulators, in insertion order
  response                   \* what the client receives

vars == <<pc, n_results, test_results, questions, qi, user_comprehensive_stats, response>>

NoResponse == [status |-> 0, weaknesses |-> <<>>, total_areas_analyzed |-> 0]

Init ==
  /\ pc = "fetch"
  /\ n_results = -1
  /\ test_results = <<>>
  /\ questions = <<>>
  /\ qi = 0
  /\ user_comprehensive_stats = <<>>
  /\ response = NoResponse

\* lines 73-85: the fetch answers with rows
Fetch ==
  /\ pc = "fetch"
  /\ \E n \in 0..MaxRecs :
       /\ n_results' = n
       /\ IF n = 0
          THEN /\ response' = RaisedInTry("HTTPException", 404)
               /\ pc' = "done"
          ELSE /\ response' = response
               /\ pc' = "tests"
  /\ UNCHANGED <<test_results, questions, qi, user_comprehensive_stats>>

\* lines 73-77: the fetch raises
FetchFails ==
  /\ pc = "fetch"
  /\ response' = RaisedInTry("APIError", 0)
  /\ pc' = "done"
  /\ UNCHANGED <<n_results, test_results, questions, qi, user_comprehensive_stats>>

\* lines 87-99: the loop over test_results takes the next row
NextTest ==
  /\ pc = "tests"
  /\ Len(test_results) < n_results
  /\ \E test \in RowsWithin[MaxEntries - EntriesInAll(test_results)] :
       /\ test_results' = Append(test_results, test)
       /\ LET loaded == LoadQuestions(test)
          IN IF loaded.exc # "None"
             THEN IF CaughtByDecodeExcept(loaded.exc) \/ CaughtByRecordExcept(loaded.exc)
                  THEN UNCHANGED <<pc, questions, qi, response>>
                  ELSE /\ response' = RaisedInTry(loaded.exc, 0)
                       /\ pc' = "done"
                       /\ UNCHANGED <<questions, qi>>
             ELSE IF loaded.items = <<>>
                  THEN UNCHANGED <<pc, questions, qi, response>>
                  ELSE /\ questions' = loaded.items
                       /\ qi' = 1
                       /\ pc' = "questions"
                       /\ response' = response
  /\ UNCHANGED <<n_results, user_comprehensive_stats>>

\* lines 99-119: one pass of the loop over the row's questions
NextQuestion ==
  /\ pc = "questions"
  /\ LET done == ProcessQuestion(user_comprehensive_stats, questions[qi])
     IN IF done.exc # "None"
        THEN IF CaughtByRecordExcept(done.exc)
             THEN /\ pc' = "tests"
                  /\ UNCHANGED <<qi, user_comprehensive_stats, response>>
             ELSE /\ response' = RaisedInTry(done.exc, 0)
                  /\ pc' = "done"
                  /\ UNCHANGED <<qi, user_comprehensive_stats>>
        ELSE /\ user_comprehensive_stats' = done.stats
             /\ response' = response
             /\ IF qi < Len(questions)
                THEN /\ qi' = qi + 1
                     /\ pc' = pc
                ELSE /\ pc' = "tests"
                     /\ qi' = qi
  /\ UNCHANGED <<n_results, test_results, questions>>

\* lines 121-150: the rates, the list, the sort and the answer
Finish ==
  /\ pc = "tests"
  /\ Len(test_results) = n_results
  /\ LET rated == CalculateErrorRates(user_comprehensive_stats)
         built == BuildWeaknesses(rated)
     IN /\ user_comprehensive_stats' = rated
        /\ response' = IF built.exc # "None" THEN RaisedInTry(built.exc, 0)
                       ELSE OkResponse(SortByErrorRate(built.weaknesses))
  /\ pc' = "done"
  /\ UNCHANGED <<n_results, test_results, questions, qi>>

Next == Fetch \/ FetchFails \/ NextTest \/ NextQuestion \/ Finish

Spec == Init /\ [][Next]_vars

(***************************************************************************)
(* What the claims speak of.                                               *)
(***************************************************************************)
Done == pc = "done"

Last(seq) == seq[Len(seq)]

\* a row whose question_details is a string that does not decode
Undecodable(test) ==
  /\ "question_details" \in DOMAIN test
  /\ test.question_details.type = "str"
  /\ ~test.question_details.text.valid

\* the entries of a row's question_details, decoded if it is a string
ItemsOf(test) ==
  IF "question_details" \notin DOMAIN test THEN <<>>
  ELSE LET d == test.question_details
       IN IF d.type = "list" THEN d.items
          ELSE IF d.type = "str" /\ d.text.valid /\ d.text.value.type = "list"
               THEN d.text.value.items
          ELSE <<>>

\* a row that holds a collection of question attempts
WellFormed(test) ==
  /\ "question_details" \in DOMAIN test
  /\ LET d == test.question_details
     IN \/ d.type = "list"
        \/ d.type = "str" /\ d.text.valid /\ d.text.value.type = "list"
  /\ \A i \in 1..Len(ItemsOf(test)) : ItemsOf(test)[i].type = "dict"

AllWellFormed(rows) == \A i \in 1..Len(rows) : WellFormed(rows[i])

\* the question attempts of the well-formed rows, in input order
RECURSIVE AttemptsIn(_)
AttemptsIn(rows) ==
  IF rows = <<>> THEN <<>>
  ELSE (IF WellFormed(Head(rows)) THEN ItemsOf(Head(rows)) ELSE <<>>)
         \o AttemptsIn(Tail(rows))

PairOf(q) == <<Get(q.fields, "subtopic", Unknown), Get(q.fields, "section", Unknown)>>

IsCorrect(q) == Get(q.fields, "isCorrect", FALSE)

\* the statistics of a sequence of attempts, one group per (subtopic, section)
GroupsOf(atts) ==
  { LET mine == {i \in 1..Len(atts) : PairOf(atts[i]) = p}
        right == {i \in mine : IsCorrect(atts[i])}
    IN [subtopic |-> p[1], section |-> p[2],
        total_questions |-> Cardinality(mine),
        correct_answers |-> Cardinality(right),
        incorrect_answers |-> Cardinality(mine) - Cardinality(right)]
    : p \in {PairOf(atts[i]) : i \in 1..Len(atts)} }

Emitted == response.weaknesses

\* the groups of the response, without their rates
EmittedGroups ==
  { [subtopic |-> Emitted[i].subtopic, section |-> Emitted[i].section,
     total_questions |-> Emitted[i].total_questions,
     correct_answers |-> Emitted[i].correct_answers,
     incorrect_answers |-> Emitted[i].incorrect_answers] : i \in 1..Len(Emitted) }

RECURSIVE SumAnswers(_)
SumAnswers(ws) ==
  IF ws = <<>> THEN 0
  ELSE Head(ws).correct_answers + Head(ws).incorrect_answers + SumAnswers(Tail(ws))

\* the counts of the accumulators, without the rates
Counts(stats) ==
  [i \in 1..Len(stats) |->
     [key |-> stats[i].key, correct |-> stats[i].value.correct,
      incorrect |-> stats[i].value.incorrect, total |-> stats[i].value.total]]

\* the accumulators the loops of lines 87-119 leave for rows, and the
\* exception that ended them, if one did
RECURSIVE AccumulateQuestions(_, _)
AccumulateQuestions(stats, items) ==
  IF items = <<>> THEN [exc |-> "None", stats |-> stats]
  ELSE LET done == ProcessQuestion(stats, Head(items))
       IN IF done.exc # "None" THEN [exc |-> done.exc, stats |-> stats]
          ELSE AccumulateQuestions(done.stats, Tail(items))

RECURSIVE Accumulate(_, _)
Accumulate(stats, rows) ==
  IF rows = <<>> THEN [exc |-> "None", stats |-> stats]
  ELSE LET loaded == LoadQuestions(Head(rows))
       IN IF loaded.exc # "None"
          THEN IF CaughtByDecodeExcept(loaded.exc) \/ CaughtByRecordExcept(loaded.exc)
               THEN Accumulate(stats, Tail(rows))
               ELSE [exc |-> loaded.exc, stats |-> stats]
          ELSE LET row == AccumulateQuestions(stats, loaded.items)
               IN IF row.exc # "None" /\ ~CaughtByRecordExcept(row.exc) THEN row
                  ELSE Accumulate(row.stats, Tail(rows))

\* rows without its undecodable rows
RECURSIVE WithoutUndecodable(_)
WithoutUndecodable(rows) ==
  IF rows = <<>> THEN <<>>
  ELSE (IF Undecodable(Head(rows)) THEN <<>> ELSE <<Head(rows)>>)
         \o WithoutUndecodable(Tail(rows))

\* the exact value of a float times t equals n: m * 2^e * t = n, with e <= 0
ExactlyTimes(f, t, n) ==
  BCmp(BMulSmall(f.m, t), BShl(BFromInt(n), 0 - f.e)) = 0

\* | f * t - n | <= n * 2^(-52), with e <= 0
NearlyTimes(f, t, n) ==
  LET want == BShl(BFromInt(n), 0 - f.e)
  IN BCmp(BShl(BDist(BMulSmall(f.m, t), want), MantissaBits - 1), want) <= 0

\* 0 <= f <= 100
InPercentRange(f) == f.e <= 0 /\ BCmp(f.m, BShl(BFromInt(100), 0 - f.e)) <= 0

\* the place of the first attempt of the (subtopic, section) of w, 0 if none
FirstSeen(atts, w) ==
  LET at == {i \in 1..Len(atts) : PairOf(atts[i]) = <<w.subtopic, w.section>>}
  IN IF at = {} THEN 0 ELSE CHOOSE i \in at : \A j \in at : i <= j

(***************************************************************************)
(* The claims.                                                             *)
(***************************************************************************)
\* C1: when the fetch returns no rows, the response has status 404.
C1_EmptyFetchIs404 ==
  (Done /\ n_results = 0) => response.status = 404

\* C2: for every non-empty fetch, whatever rows are malformed, the request
\* ends with a 200 whose groups are the statistics of the attempts of the
\* well-formed rows, never with a 500.
C2_MalformedNeverSurfaces ==
  (Done /\ n_results >= 1 /\ \E i \in 1..Len(test_results) : ~WellFormed(test_results[i]))
    => /\ response.status = 200
       /\ EmittedGroups = GroupsOf(AttemptsIn(test_results))

\* C3: when the only row has a question_details that does not decode, the
\* response is the 404 of "no data".
C3_OnlyUndecodableIs404 ==
  (Done /\ n_results = 1 /\ Len(test_results) = 1 /\ Undecodable(test_results[1]))
    => response.status = 404

\* C4: an undecodable row is skipped and nothing else: between two rows and
\* at the end the accumulators are those the same rows without the
\* undecodable ones leave, and the loop does not end at an undecodable row.
C4_UndecodableRowSkipped ==
  /\ pc \in {"tests", "done"}
       => Counts(user_comprehensive_stats)
            = Counts(Accumulate(<<>>, WithoutUndecodable(test_results)).stats)
  /\ (Done /\ test_results # <<>> /\ Undecodable(Last(test_results)))
       => Len(test_results) = n_results

\* an undecodable first row, and a well-formed second row that was counted
C4_Witness ==
  /\ Done
  /\ Len(test_results) >= 2
  /\ Undecodable(test_results[1])
  /\ WellFormed(test_results[2])
  /\ user_comprehensive_stats # <<>>

\* C5: for every non-empty fetch of well-formed rows, the correct and
\* incorrect answers of the emitted groups add up to the number of attempts
\* of the rows.
C5_AnswersAddUp ==
  (Done /\ n_results >= 1 /\ Len(test_results) = n_results /\ AllWellFormed(test_results))
    => SumAnswers(Emitted) = Len(AttemptsIn(test_results))

\* C6: the response holds exactly one group per (subtopic, section) of the
\* attempts processed, under the values the attempts had, whatever the
\* strings hold.
C6_OneGroupPerPair ==
  (Done /\ n_results >= 1 /\ Len(test_results) = n_results /\ AllWellFormed(test_results))
    => /\ response.status = 200
       /\ Len(Emitted) = Cardinality(GroupsOf(AttemptsIn(test_results)))
       /\ EmittedGroups = GroupsOf(AttemptsIn(test_results))

\* C7: in every 200 response the weaknesses are sorted by error_rate,
\* highest first.
C7_SortedDescending ==
  response.status = 200
    => \A i \in 1..(Len(Emitted) - 1) :
         FloatCmp(Emitted[i].error_rate, Emitted[i + 1].error_rate) >= 0

\* a 200 response of two groups that were accumulated lower rate first
C7_Witness ==
  /\ response.status = 200
  /\ Len(Emitted) = 2
  /\ FloatCmp(user_comprehensive_stats[1].value.error_rate,
              user_comprehensive_stats[2].value.error_rate) < 0

\* C8 as stated: error_rate * total_questions = 100 * incorrect_answers,
\* exactly, and 0 <= error_rate <= 100.
C8_RateIsExact ==
  \A i \in 1..Len(Emitted) :
    /\ ExactlyTimes(Emitted[i].error_rate, Emitted[i].total_questions,
                    100 * Emitted[i].incorrect_answers)
    /\ InPercentRange(Emitted[i].error_rate)

\* C8 as amended: error_rate is 100 * incorrect_answers / total_questions to
\* within a relative error of 2^-52, the tolerance of the two float
\* roundings, and 0 <= error_rate <= 100.
C8_RateWithinTolerance ==
  \A i \in 1..Len(Emitted) :
    /\ NearlyTimes(Emitted[i].error_rate, Emitted[i].total_questions,
                   100 * Emitted[i].incorrect_answers)
    /\ InPercentRange(Emitted[i].error_rate)

\* a group answered wrong once in three attempts
C8_Witness ==
  /\ response.status = 200
  /\ \E i \in 1..Len(Emitted) :
       Emitted[i].total_questions = 3 /\ Emitted[i].incorrect_answers = 1

\* C9: groups of equal error_rate come in the order in which their
\* (subtopic, section) was first met in the rows and their attempts.
C9_TiesInFirstSeenOrder ==
  response.status = 200
    => \A i, j \in 1..Len(Emitted) :
         LET atts == AttemptsIn(test_results)
         IN (/\ i < j
             /\ FloatCmp(Emitted[i].error_rate, Emitted[j].error_rate) = 0
             /\ FirstSeen(atts, Emitted[i]) > 0
             /\ FirstSeen(atts, Emitted[j]) > 0)
              => FirstSeen(atts, Emitted[i]) < FirstSeen(atts, Emitted[j])

\* C10: every accumulator there is has total >= 1 and total = correct +
\* incorrect, so the filter of line 131 keeps every one of them.
C10_NoEmptyAccumulator ==
  \A i \in 1..Len(user_comprehensive_stats) :
    LET value == user_comprehensive_stats[i].value
    IN /\ value.total >= 1
       /\ value.total = value.correct + value.incorrect
       /\ Included(value)

\* in the middle of a row, a group with both kinds of answers
C10_Witness ==
  /\ pc = "questions"
  /\ \E i \in 1..Len(user_comprehensive_stats) :
       /\ user_comprehensive_stats[i].value.correct >= 1
       /\ user_comprehensive_stats[i].value.incorrect >= 1

====
